---------------------------- MODULE Spec2Model ----------------------------
(***************************************************************************)
(* A model of x509_utils (brave_certificate_x509_utils.cc): the structural *)
(* DER parsers, the embedded SCT extractor and the OID <-> NID resolver.   *)
(*                                                                         *)
(* A call of one of the functions is one action.  The state records the    *)
(* last call (which function, its argument, its return value and what it   *)
(* wrote through its out-parameters) next to the state that outlives a     *)
(* call: the caller's SCT collection, the crypto library's error queue and *)
(* the object registry.                                                    *)
(*                                                                         *)
(* A net::der::Input is modelled as the sequence of the bytes it views, a  *)
(* net::der::Parser as the bytes it has not consumed yet.                  *)
(***************************************************************************)
EXTENDS Integers, Sequences, FiniteSets, TLC

VARIABLES
    op,        \* the function called last ("none" before the first call)
    input,     \* its argument
    result,    \* its return value
    out,       \* what its out-parameters hold at return
    scts,      \* the caller's std::vector of SCT entries
    err,       \* the crypto library's error queue of this thread
    registry,  \* the crypto library's process-wide object registry
    seen       \* history: the outcome of the first OIDToNID call per OID

vars == <<op, input, result, out, scts, err, registry, seen>>

-----------------------------------------------------------------------------
(* Bounds of the model.                                                    *)

\* Longest byte string inputs are built from (see DERInputs).
MaxContentLen == 4
\* Most serialized records in one embedded SCT list.
MaxRecords == 2
\* Most entries the caller's collection holds.
MaxScts == 3

\* The bytes inputs are built from: the tags SEQUENCE (0x30), OID (0x06) and
\* NULL (0x05), which double as lengths, the lengths 0, 1, 2 and the
\* long-form length prefix 0x81 (also the tag [1]).  No byte has the low
\* five bits 11111, so every tag is a single byte.
Bytes == {0, 1, 2, 5, 6, 48, 129}

SeqsUpTo(S, n) == UNION {[1..k -> S] : k \in 0..n}

\* An out-parameter the call never wrote: it holds what the caller put there.
Unset == <<-1>>

-----------------------------------------------------------------------------
(* The DER primitive reader, net::der::Parser over BoringSSL's CBS.        *)

kInteger == 2
kBitString == 3
kNull == 5
kOid == 6
kSequence == 48

RECURSIVE BigEndian(_)
BigEndian(s) ==
    IF Len(s) = 0 THEN 0
    ELSE 256 * BigEndian(SubSeq(s, 1, Len(s) - 1)) + s[Len(s)]

NoLength == [ok |-> FALSE, hdr |-> 0, len |-> 0]

\* The length octets that follow a tag, as CBS_get_any_asn1_element reads
\* them in DER mode: short form below 128; long form of 1..4 octets, which
\* must be minimal; the indefinite form 0x80 is refused.
ReadLength(s) ==
    IF Len(s) = 0 THEN NoLength
    ELSE IF s[1] < 128 THEN [ok |-> TRUE, hdr |-> 1, len |-> s[1]]
    ELSE LET n == s[1] - 128 IN
         IF n = 0 \/ n > 4 \/ Len(s) < 1 + n THEN NoLength
         ELSE LET v == BigEndian(SubSeq(s, 2, 1 + n)) IN
              IF v < 128 \/ s[2] = 0 THEN NoLength
              ELSE [ok |-> TRUE, hdr |-> 1 + n, len |-> v]

NoElement == [ok |-> FALSE, tag |-> 0, value |-> <<>>, tlv |-> <<>>, rest |-> <<>>]

\* Parser::PeekTagAndValue: the first element of p, if p starts with one.
\* The tag [UNIVERSAL 0] is refused, and so is an element longer than p.
PeekTagAndValue(p) ==
    IF Len(p) = 0 \/ p[1] = 0 THEN NoElement
    ELSE LET l == ReadLength(Tail(p)) IN
         IF ~l.ok \/ Len(p) < 1 + l.hdr + l.len THEN NoElement
         ELSE [ok    |-> TRUE,
               tag   |-> p[1],
               value |-> SubSeq(p, 2 + l.hdr, 1 + l.hdr + l.len),
               tlv   |-> SubSeq(p, 1, 1 + l.hdr + l.len),
               rest  |-> SubSeq(p, 2 + l.hdr + l.len, Len(p))]

\* Parser::HasMore
HasMore(p) == Len(p) > 0

\* Parser::ReadTag(tag, out): out is the element's value; on failure the
\* parser does not advance and out is not written.
ReadTag(p, tag) ==
    LET e == PeekTagAndValue(p) IN
    IF e.ok /\ e.tag = tag
    THEN [ok |-> TRUE, out |-> e.value, rest |-> e.rest]
    ELSE [ok |-> FALSE, out |-> Unset, rest |-> p]

\* Parser::ReadSequence(parser): out is the parser over the content.
ReadSequence(p) == ReadTag(p, kSequence)

\* Parser::ReadRawTLV(out): out is the whole element, header included.
ReadRawTLV(p) ==
    LET e == PeekTagAndValue(p) IN
    IF e.ok
    THEN [ok |-> TRUE, out |-> e.tlv, rest |-> e.rest]
    ELSE [ok |-> FALSE, out |-> Unset, rest |-> p]

-----------------------------------------------------------------------------
(* The structural parsers.                                                 *)

AlgorithmResult(r, oid, params) ==
    [result |-> r, algorithm_oid |-> oid, parameters |-> params]

\* ParseAlgorithmIdentifier without the check for bytes after the SEQUENCE.
ParseAlgorithmIdentifier_NoOuterCheck(in) ==
    LET seq == ReadSequence(in) IN
    IF ~seq.ok THEN AlgorithmResult(FALSE, Unset, Unset)
    ELSE LET oid == ReadTag(seq.out, kOid) IN
         IF ~oid.ok THEN AlgorithmResult(FALSE, Unset, Unset)
         ELSE IF ~HasMore(oid.rest) THEN AlgorithmResult(TRUE, oid.out, <<>>)
         ELSE LET tlv == ReadRawTLV(oid.rest) IN
              IF ~tlv.ok THEN AlgorithmResult(FALSE, oid.out, <<>>)
              ELSE AlgorithmResult(~HasMore(tlv.rest), oid.out, tlv.out)

\* ParseAlgorithmIdentifier without the check for bytes after the parameters.
ParseAlgorithmIdentifier_NoInnerCheck(in) ==
    LET seq == ReadSequence(in) IN
    IF ~seq.ok THEN AlgorithmResult(FALSE, Unset, Unset)
    ELSE IF HasMore(seq.rest) THEN AlgorithmResult(FALSE, Unset, Unset)
    ELSE LET oid == ReadTag(seq.out, kOid) IN
         IF ~oid.ok THEN AlgorithmResult(FALSE, Unset, Unset)
         ELSE IF ~HasMore(oid.rest) THEN AlgorithmResult(TRUE, oid.out, <<>>)
         ELSE LET tlv == ReadRawTLV(oid.rest) IN
              IF ~tlv.ok THEN AlgorithmResult(FALSE, oid.out, <<>>)
              ELSE AlgorithmResult(TRUE, oid.out, tlv.out)

ParseAlgorithmIdentifier(in) ==
    LET seq == ReadSequence(in) IN
    IF ~seq.ok THEN AlgorithmResult(FALSE, Unset, Unset)
    ELSE IF HasMore(seq.rest) THEN AlgorithmResult(FALSE, Unset, Unset)
    ELSE LET oid == ReadTag(seq.out, kOid) IN
         IF ~oid.ok THEN AlgorithmResult(FALSE, Unset, Unset)
         ELSE IF ~HasMore(oid.rest) THEN AlgorithmResult(TRUE, oid.out, <<>>)
         ELSE LET tlv == ReadRawTLV(oid.rest) IN
              IF ~tlv.ok THEN AlgorithmResult(FALSE, oid.out, <<>>)
              ELSE AlgorithmResult(~HasMore(tlv.rest), oid.out, tlv.out)

\* ParseAlgorithmSequence without the requirement of a field after the OID.
ParseAlgorithmSequence_OidOnly(in) ==
    LET oid == ReadTag(in, kOid) IN
    IF ~oid.ok THEN AlgorithmResult(FALSE, Unset, Unset)
    ELSE IF ~HasMore(oid.rest) THEN AlgorithmResult(TRUE, oid.out, <<>>)
    ELSE LET tlv == ReadRawTLV(oid.rest) IN
         IF ~tlv.ok THEN AlgorithmResult(FALSE, oid.out, <<>>)
         ELSE AlgorithmResult(~HasMore(tlv.rest), oid.out, tlv.out)

ParseAlgorithmSequence(in) ==
    LET oid == ReadTag(in, kOid) IN
    IF ~oid.ok THEN AlgorithmResult(FALSE, Unset, Unset)
    ELSE IF ~HasMore(oid.rest) THEN AlgorithmResult(FALSE, oid.out, Unset)
    ELSE LET tlv == ReadRawTLV(oid.rest) IN
         IF ~tlv.ok THEN AlgorithmResult(FALSE, oid.out, <<>>)
         ELSE AlgorithmResult(~HasMore(tlv.rest), oid.out, tlv.out)

\* IsNull without the check that the value is empty.
IsNull_AnyLength(in) ==
    LET null_value == ReadTag(in, kNull) IN
    IF ~null_value.ok THEN FALSE
    ELSE ~HasMore(null_value.rest)

IsNull(in) ==
    LET null_value == ReadTag(in, kNull) IN
    IF ~null_value.ok THEN FALSE
    ELSE IF Len(null_value.out) # 0 THEN FALSE
    ELSE ~HasMore(null_value.rest)

KeyResult(r, first, second) == [result |-> r, first |-> first, second |-> second]

\* ParseSubjectPublicKeyInfo with a check for bytes after the bit string.
ParseSubjectPublicKeyInfo_Strict(in) ==
    LET seq == ReadSequence(in) IN
    IF ~seq.ok THEN KeyResult(FALSE, Unset, Unset)
    ELSE LET alg == ReadTag(seq.out, kSequence) IN
         IF ~alg.ok THEN KeyResult(FALSE, Unset, Unset)
         ELSE IF ~HasMore(alg.rest) THEN KeyResult(FALSE, alg.out, Unset)
         ELSE LET key == ReadTag(alg.rest, kBitString) IN
              IF ~key.ok THEN KeyResult(FALSE, alg.out, Unset)
              ELSE KeyResult(~HasMore(key.rest) /\ ~HasMore(seq.rest),
                             alg.out, key.out)

\* ParseSubjectPublicKeyInfo(input, algorithm_sequence, spk): first is
\* algorithm_sequence, second is spk.
ParseSubjectPublicKeyInfo(in) ==
    LET seq == ReadSequence(in) IN
    IF ~seq.ok THEN KeyResult(FALSE, Unset, Unset)
    ELSE LET alg == ReadTag(seq.out, kSequence) IN
         IF ~alg.ok THEN KeyResult(FALSE, Unset, Unset)
         ELSE IF ~HasMore(alg.rest) THEN KeyResult(FALSE, alg.out, Unset)
         ELSE LET key == ReadTag(alg.rest, kBitString) IN
              IF ~key.ok THEN KeyResult(FALSE, alg.out, Unset)
              ELSE KeyResult(TRUE, alg.out, key.out)

\* ParseRSAPublicKeyInfo reading the exponent without looking at its tag.
ParseRSAPublicKeyInfo_AnyExponent(in) ==
    LET seq == ReadSequence(in) IN
    IF ~seq.ok THEN KeyResult(FALSE, Unset, Unset)
    ELSE LET mod == ReadTag(seq.out, kInteger) IN
         IF ~mod.ok THEN KeyResult(FALSE, Unset, Unset)
         ELSE IF ~HasMore(mod.rest) THEN KeyResult(FALSE, mod.out, Unset)
         ELSE LET exp == PeekTagAndValue(mod.rest) IN
              IF ~exp.ok THEN KeyResult(FALSE, mod.out, Unset)
              ELSE KeyResult(TRUE, mod.out, exp.value)

\* ParseRSAPublicKeyInfo(input, modulus, public_exponent): first is modulus,
\* second is public_exponent.
ParseRSAPublicKeyInfo(in) ==
    LET seq == ReadSequence(in) IN
    IF ~seq.ok THEN KeyResult(FALSE, Unset, Unset)
    ELSE LET mod == ReadTag(seq.out, kInteger) IN
         IF ~mod.ok THEN KeyResult(FALSE, Unset, Unset)
         ELSE IF ~HasMore(mod.rest) THEN KeyResult(FALSE, mod.out, Unset)
         ELSE LET exp == ReadTag(mod.rest, kInteger) IN
              IF ~exp.ok THEN KeyResult(FALSE, mod.out, Unset)
              ELSE KeyResult(TRUE, mod.out, exp.out)

-----------------------------------------------------------------------------
(* The embedded SCT extractor.                                             *)

\* A certificate, as far as the extractor looks at it: whether it carries
\* the embedded SCT list extension (and whether that parses), whether the
\* extension's value is a well-formed length-prefixed list, and the
\* serialized records of the list.  A serialized record is its version byte
\* followed by its log id; it may be cut short.
SerializedSCTs == {<<0, 1>>, <<0, 2>>, <<1, 1>>, <<0>>}
NoList == [wellFormed |-> FALSE, records |-> <<>>]
SCTLists ==
    {NoList} \cup
    {[wellFormed |-> TRUE, records |-> r] : r \in SeqsUpTo(SerializedSCTs, MaxRecords)}
Certs ==
    {[extension |-> e, sct_list |-> NoList] : e \in {"absent", "malformed"}}
    \cup {[extension |-> "present", sct_list |-> l] : l \in SCTLists}

\* net::ct::ExtractEmbeddedSCTList: the extension's value, if there is one.
ExtractEmbeddedSCTList(cert) ==
    [ok |-> cert.extension = "present", sct_list |-> cert.sct_list]

\* net::ct::DecodeSCTList: the serialized records of a well-formed list.
\* A well-formed list without records is handed on as it is, which leaves
\* refusing it to the caller's own check.
DecodeSCTList(sct_list) ==
    [ok |-> sct_list.wellFormed, parsed_scts |-> sct_list.records]

\* new net::ct::SignedCertificateTimestamp(): version V1, no log id.
NewSCT == [version |-> 0, log_id |-> 0]

\* net::ct::DecodeSignedCertificateTimestamp(&input, &output): a record of
\* version V1 that is not cut short decodes; output is written on success
\* only.
DecodeSignedCertificateTimestamp(record, output) ==
    IF Len(record) = 2 /\ record[1] = 0
    THEN [ok |-> TRUE, sct |-> [version |-> 0, log_id |-> record[2]]]
    ELSE [ok |-> FALSE, sct |-> output]

\* The loop with its operands swapped: no record is decoded after a failure.
RECURSIVE DecodeEach_ShortCircuit(_, _, _)
DecodeEach_ShortCircuit(parsed_scts, res, v) ==
    IF parsed_scts = <<>> THEN [result |-> res, scts |-> v]
    ELSE LET d == IF res
                  THEN DecodeSignedCertificateTimestamp(Head(parsed_scts), NewSCT)
                  ELSE [ok |-> FALSE, sct |-> NewSCT]
         IN  DecodeEach_ShortCircuit(Tail(parsed_scts), res /\ d.ok,
                                     Append(v, d.sct))

\* The loop over parsed_scts: res is the flag so far, v the collection.
RECURSIVE DecodeEach(_, _, _)
DecodeEach(parsed_scts, res, v) ==
    IF parsed_scts = <<>> THEN [result |-> res, scts |-> v]
    ELSE LET d == DecodeSignedCertificateTimestamp(Head(parsed_scts), NewSCT)
         IN  DecodeEach(Tail(parsed_scts), d.ok /\ res, Append(v, d.sct))

\* ExtractEmbeddedSCT emptying the collection before it fills it.
ExtractEmbeddedSCT_Clears(cert, v) ==
    LET list == ExtractEmbeddedSCTList(cert) IN
    IF ~list.ok THEN [result |-> FALSE, scts |-> v]
    ELSE LET parsed == DecodeSCTList(list.sct_list) IN
         IF ~parsed.ok THEN [result |-> FALSE, scts |-> v]
         ELSE IF parsed.parsed_scts = <<>> THEN [result |-> FALSE, scts |-> v]
         ELSE DecodeEach(parsed.parsed_scts, TRUE, <<>>)

\* ExtractEmbeddedSCT without the check for an empty list.
ExtractEmbeddedSCT_NoEmptyCheck(cert, v) ==
    LET list == ExtractEmbeddedSCTList(cert) IN
    IF ~list.ok THEN [result |-> FALSE, scts |-> v]
    ELSE LET parsed == DecodeSCTList(list.sct_list) IN
         IF ~parsed.ok THEN [result |-> FALSE, scts |-> v]
         ELSE DecodeEach(parsed.parsed_scts, TRUE, v)

\* ExtractEmbeddedSCT(cert, scts), v being scts at the call.
ExtractEmbeddedSCT(cert, v) ==
    LET list == ExtractEmbeddedSCTList(cert) IN
    IF ~list.ok THEN [result |-> FALSE, scts |-> v]
    ELSE LET parsed == DecodeSCTList(list.sct_list) IN
         IF ~parsed.ok THEN [result |-> FALSE, scts |-> v]
         ELSE IF parsed.parsed_scts = <<>> THEN [result |-> FALSE, scts |-> v]
         ELSE DecodeEach(parsed.parsed_scts, TRUE, v)

-----------------------------------------------------------------------------
(* The OID <-> NID resolver over the crypto library's object registry.     *)

NID_undef == 0

\* Objects of the registry: numeric identifier, DER content of the OID and
\* registered name.
BuiltinObjects ==
    {[nid |-> 6,   oid |-> <<42, 134, 72, 134, 247, 13, 1, 1, 1>>,
      ln |-> "rsaEncryption"],
     [nid |-> 13,  oid |-> <<85, 4, 3>>,
      ln |-> "commonName"],
     [nid |-> 672, oid |-> <<96, 134, 72, 1, 101, 3, 4, 2, 1>>,
      ln |-> "sha256"]}

\* The OID bytes the resolver is called with: the registered ones, the
\* empty span, an OID the registry does not hold (1.2.3.4) and a byte that
\* is no OID at all.
OIDInputs == {o.oid : o \in BuiltinObjects} \cup {<<>>, <<42, 3, 4>>, <<255>>}

\* What the caller's std::int32_t holds before the call.
OutBefore == {0, 6}

\* How the library's calls after the lookup end: OBJ_nid2obj returns NULL
\* for an identifier it has no object for, OBJ_obj2txt returns -1 when it
\* cannot build the text; both then queue an error.
LibOutcomes == [nid2obj : {"ok", "fails"}, obj2txt : {"ok", "fails"}]

\* OBJ_cbs2nid: the identifier of the object with these OID bytes.
OBJ_cbs2nid(reg, bytes) ==
    IF \E o \in reg : o.oid = bytes
    THEN (CHOOSE o \in reg : o.oid = bytes).nid
    ELSE NID_undef

NoObject == [nid |-> NID_undef, oid |-> <<>>, ln |-> ""]

\* OBJ_nid2obj: the object of an identifier, or NULL with an error queued.
OBJ_nid2obj(reg, nid, outcome) ==
    IF outcome = "ok" /\ \E o \in reg : o.nid = nid
    THEN [found |-> TRUE, object |-> CHOOSE o \in reg : o.nid = nid,
          queued |-> <<>>]
    ELSE [found |-> FALSE, object |-> NoObject,
          queued |-> <<"OBJ_R_UNKNOWN_NID">>]

Digit(d) == <<"0", "1", "2", "3", "4", "5", "6", "7", "8", "9">>[d + 1]

\* add_decimal
RECURSIVE Decimal(_)
Decimal(n) == IF n < 10 THEN Digit(n) ELSE Decimal(n \div 10) \o Digit(n % 10)

\* parse_base128_integer: seven bits per byte, the high bit set on every
\* byte but the last, no leading 0x80.  (Every arc of the model is far
\* below the 64-bit overflow check.)
RECURSIVE ParseBase128(_, _)
ParseBase128(s, v) ==
    IF Len(s) = 0 THEN [ok |-> FALSE, v |-> 0, rest |-> <<>>]
    ELSE IF v = 0 /\ s[1] = 128 THEN [ok |-> FALSE, v |-> 0, rest |-> <<>>]
    ELSE LET w == v * 128 + (s[1] % 128) IN
         IF s[1] < 128 THEN [ok |-> TRUE, v |-> w, rest |-> Tail(s)]
         ELSE ParseBase128(Tail(s), w)

RECURSIVE MoreArcs(_, _)
MoreArcs(s, text) ==
    IF Len(s) = 0 THEN [ok |-> TRUE, text |-> text]
    ELSE LET a == ParseBase128(s, 0) IN
         IF ~a.ok THEN [ok |-> FALSE, text |-> ""]
         ELSE MoreArcs(a.rest, text \o "." \o Decimal(a.v))

\* CBS_asn1_oid_to_text: the first integer is 40 * arc1 + arc2.
OidToText(bytes) ==
    LET a == ParseBase128(bytes, 0) IN
    IF ~a.ok THEN [ok |-> FALSE, text |-> ""]
    ELSE IF a.v >= 80 THEN MoreArcs(a.rest, "2." \o Decimal(a.v - 80))
    ELSE MoreArcs(a.rest, Decimal(a.v \div 40) \o "." \o Decimal(a.v % 40))

\* TLC has no length of a string; the texts of the model are these.
TextLength(t) ==
    CASE t = "" -> 0
      [] t = "1.2.840.113549.1.1.1" -> 20
      [] t = "2.5.4.3" -> 7
      [] t = "2.16.840.1.101.3.4.2.1" -> 22
      [] t = "rsaEncryption" -> 13
      [] t = "commonName" -> 10
      [] t = "sha256" -> 6

\* OBJ_obj2txt(out, out_len, obj, always_return_oid): the text written and
\* the length returned.  Every text of the model fits the 128-byte buffer.
OBJ_obj2txt(reg, object, always_return_oid, outcome) ==
    IF Len(object.oid) = 0 THEN [total_space |-> 0, text |-> "", queued |-> <<>>]
    ELSE IF always_return_oid = 0 /\ OBJ_cbs2nid(reg, object.oid) # NID_undef
    THEN [total_space |-> TextLength(object.ln), text |-> object.ln,
          queued |-> <<>>]
    ELSE LET t == OidToText(object.oid) IN
         IF outcome = "ok" /\ t.ok
         THEN [total_space |-> TextLength(t.text), text |-> t.text,
               queued |-> <<>>]
         ELSE [total_space |-> -1, text |-> "",
               queued |-> <<"ERR_R_MALLOC_FAILURE">>]

\* OIDToNID without the *out = -1 at its start.
OIDToNID_NoReset(bytes, out_null, before, e, reg) ==
    IF out_null
    THEN [result |-> FALSE, out |-> before, err |-> e, registry |-> reg]
    ELSE LET nid == OBJ_cbs2nid(reg, bytes) IN
         [result   |-> nid # NID_undef,
          out      |-> IF nid # NID_undef THEN nid ELSE before,
          err      |-> <<>>,
          registry |-> reg]

\* OIDToNID(input, out): before is what *out holds at the call, e the error
\* queue, reg the registry.
OIDToNID(bytes, out_null, before, e, reg) ==
    IF out_null
    THEN [result |-> FALSE, out |-> before, err |-> e, registry |-> reg]
    ELSE LET nid == OBJ_cbs2nid(reg, bytes) IN
         [result   |-> nid # NID_undef,
          out      |-> IF nid # NID_undef THEN nid ELSE -1,
          err      |-> <<>>,
          registry |-> reg]

NIDToAbsoluteOID_Text(bytes, e, reg, lib, no_name) ==
    LET r == OIDToNID(bytes, FALSE, -1, e, reg) IN
    IF ~r.result THEN [text |-> "", err |-> r.err, registry |-> r.registry]
    ELSE LET o == OBJ_nid2obj(r.registry, r.out, lib.nid2obj) IN
         IF ~o.found
         THEN [text |-> "", err |-> r.err \o o.queued, registry |-> r.registry]
         ELSE LET t == OBJ_obj2txt(r.registry, o.object, no_name, lib.obj2txt) IN
              [text     |-> IF t.total_space > 0 THEN t.text ELSE "",
               err      |-> r.err \o o.queued \o t.queued,
               registry |-> r.registry]

\* NIDToAbsoluteOID asking OBJ_obj2txt for the registered name.
NIDToAbsoluteOID_Name(bytes, e, reg, lib) ==
    NIDToAbsoluteOID_Text(bytes, e, reg, lib, 0)

\* NIDToAbsoluteOID(input)
NIDToAbsoluteOID(bytes, e, reg, lib) ==
    NIDToAbsoluteOID_Text(bytes, e, reg, lib, 1)

-----------------------------------------------------------------------------
(* DER encoding, used to build inputs and to state the claims.             *)

EncodeLength(n) ==
    IF n < 128 THEN <<n>>
    ELSE IF n < 256 THEN <<129, n>>
    ELSE <<130, n \div 256, n % 256>>

EncodeTLV(tag, value) == <<tag>> \o EncodeLength(Len(value)) \o value

\* What the parsers are called with: every short byte string, every such
\* string followed by one more byte, and each of those wrapped into a
\* SEQUENCE, alone or followed by one more byte.
Trailers == {<<>>, <<0>>}
Contents == {c \o t : c \in SeqsUpTo(Bytes, MaxContentLen), t \in Trailers}
DERInputs ==
    Contents \cup {EncodeTLV(kSequence, c) \o t : c \in Contents, t \in Trailers}

\* The same over the bytes of a key structure: the tags SEQUENCE (0x30),
\* INTEGER (0x02) and BIT STRING (0x03) and the lengths 0 and 1.
KeyBytes == {0, 1, 2, 3, 48}
KeyContents == {c \o t : c \in SeqsUpTo(KeyBytes, MaxContentLen), t \in Trailers}
KeyInputs ==
    KeyContents
    \cup {EncodeTLV(kSequence, c) \o t : c \in KeyContents, t \in Trailers}

-----------------------------------------------------------------------------
(* The calls of the parsers.  A parser is a function of its argument       *)
(* alone, so a behaviour is one call: the initial state holds the argument *)
(* and the call leaves the return value and the out-parameters.            *)

ParseAlgorithmIdentifierCall ==
    LET r == ParseAlgorithmIdentifier(input) IN
    /\ op = "none"
    /\ op' = "ParseAlgorithmIdentifier"
    /\ result' = r.result
    /\ out' = [algorithm_oid |-> r.algorithm_oid, parameters |-> r.parameters]
    /\ UNCHANGED <<input, scts, err, registry, seen>>

ParseAlgorithmSequenceCall ==
    LET r == ParseAlgorithmSequence(input) IN
    /\ op = "none"
    /\ op' = "ParseAlgorithmSequence"
    /\ result' = r.result
    /\ out' = [algorithm_oid |-> r.algorithm_oid, parameters |-> r.parameters]
    /\ UNCHANGED <<input, scts, err, registry, seen>>

IsNullCall ==
    /\ op = "none"
    /\ op' = "IsNull"
    /\ result' = IsNull(input)
    /\ out' = [none |-> TRUE]
    /\ UNCHANGED <<input, scts, err, registry, seen>>

ParseSubjectPublicKeyInfoCall ==
    LET r == ParseSubjectPublicKeyInfo(input) IN
    /\ op = "none"
    /\ op' = "ParseSubjectPublicKeyInfo"
    /\ result' = r.result
    /\ out' = [algorithm_sequence |-> r.first, spk |-> r.second]
    /\ UNCHANGED <<input, scts, err, registry, seen>>

ParseRSAPublicKeyInfoCall ==
    LET r == ParseRSAPublicKeyInfo(input) IN
    /\ op = "none"
    /\ op' = "ParseRSAPublicKeyInfo"
    /\ result' = r.result
    /\ out' = [modulus |-> r.first, public_exponent |-> r.second]
    /\ UNCHANGED <<input, scts, err, registry, seen>>

InitDER ==
    /\ op = "none"
    /\ input \in DERInputs \cup KeyInputs
    /\ result = FALSE
    /\ out = [none |-> TRUE]
    /\ scts = <<>>
    /\ err = <<>>
    /\ registry = BuiltinObjects
    /\ seen = {}

NextDER ==
    \/ ParseAlgorithmIdentifierCall
    \/ ParseAlgorithmSequenceCall
    \/ IsNullCall
    \/ ParseSubjectPublicKeyInfoCall
    \/ ParseRSAPublicKeyInfoCall

SpecDER == InitDER /\ [][NextDER]_vars

-----------------------------------------------------------------------------
(* The calls of the extractor and of the resolver, in any order and any    *)
(* number.                                                                 *)

Init ==
    /\ op = "none"
    /\ input = <<>>
    /\ result = FALSE
    /\ out = [none |-> TRUE]
    /\ scts = <<>>
    /\ err = <<>>
    /\ registry = BuiltinObjects
    /\ seen = {}

\* The caller passes the collection of its last call, or a new one.
ExtractEmbeddedSCTCall(cert, fresh) ==
    LET v == IF fresh THEN <<>> ELSE scts
        r == ExtractEmbeddedSCT(cert, v)
    IN  /\ Len(v) + Len(cert.sct_list.records) <= MaxScts
        /\ op' = "ExtractEmbeddedSCT"
        /\ input' = [cert |-> cert, scts |-> v]
        /\ result' = r.result
        /\ out' = [none |-> TRUE]
        /\ scts' = r.scts
        /\ UNCHANGED <<err, registry, seen>>

NextSCT == \E cert \in Certs, fresh \in BOOLEAN : ExtractEmbeddedSCTCall(cert, fresh)

SpecSCT == Init /\ [][NextSCT]_vars

OIDToNIDCall(bytes, out_null, before) ==
    LET r == OIDToNID(bytes, out_null, before, err, registry) IN
    /\ op' = "OIDToNID"
    /\ input' = [oid |-> bytes, out_null |-> out_null, out_before |-> before]
    /\ result' = r.result
    /\ out' = [nid |-> r.out]
    /\ err' = r.err
    /\ registry' = r.registry
    /\ seen' = IF out_null \/ \E h \in seen : h.oid = bytes
               THEN seen
               ELSE seen \cup {[oid |-> bytes, result |-> r.result, nid |-> r.out]}
    /\ UNCHANGED scts

NIDToAbsoluteOIDCall(bytes, lib) ==
    LET r == NIDToAbsoluteOID(bytes, err, registry, lib) IN
    /\ op' = "NIDToAbsoluteOID"
    /\ input' = [oid |-> bytes, lib |-> lib]
    /\ result' = r.text
    /\ out' = [none |-> TRUE]
    /\ err' = r.err
    /\ registry' = r.registry
    /\ UNCHANGED <<scts, seen>>

NextOID ==
    \/ \E bytes \in OIDInputs, out_null \in BOOLEAN, before \in OutBefore :
           OIDToNIDCall(bytes, out_null, before)
    \/ \E bytes \in OIDInputs, lib \in LibOutcomes :
           NIDToAbsoluteOIDCall(bytes, lib)

SpecOID == Init /\ [][NextOID]_vars

-----------------------------------------------------------------------------
(* What a well-formed encoding is, stated with the encoder alone.          *)

\* s is exactly one element: a tag other than [UNIVERSAL 0], the minimal
\* encoding of the length of what follows, and that many bytes.
IsElement(s) ==
    /\ Len(s) >= 2
    /\ s[1] # 0
    /\ \E h \in 2..Len(s) : s = EncodeTLV(s[1], SubSeq(s, h + 1, Len(s)))

IsTagged(s, tag) == IsElement(s) /\ s[1] = tag

Splits(s) == {<<SubSeq(s, 1, j), SubSeq(s, j + 1, Len(s))>> : j \in 0..Len(s)}

\* c is an OID element followed by nothing or by exactly one element.
IsAlgorithmContent(c) ==
    \E sp \in Splits(c) :
        IsTagged(sp[1], kOid) /\ (sp[2] = <<>> \/ IsElement(sp[2]))

\* s is a SEQUENCE element whose content is c.
Wraps(s, c) == s = EncodeTLV(kSequence, c)

Suffixes(s) == {SubSeq(s, j + 1, Len(s)) : j \in 0..Len(s)}

\* C2: ParseAlgorithmIdentifier returns true exactly when its input is one
\* SEQUENCE element, with nothing after it, whose content is an OID element
\* followed by nothing or by exactly one element; when the OID is the only
\* field, parameters is the empty span.
C2_AlgorithmIdentifierAccepted ==
    op = "ParseAlgorithmIdentifier" =>
        /\ result <=> \E c \in Suffixes(input) :
                          Wraps(input, c) /\ IsAlgorithmContent(c)
        /\ (\E c \in Suffixes(input) : Wraps(input, c) /\ IsTagged(c, kOid))
               => result /\ out.parameters = <<>>

\* An AlgorithmIdentifier with parameters is accepted.
C2_Witness ==
    /\ op = "ParseAlgorithmIdentifier"
    /\ result
    /\ out.parameters # <<>>

\* C3: ParseAlgorithmSequence on a content C agrees with
\* ParseAlgorithmIdentifier on C wrapped into a SEQUENCE, in the result and,
\* on success, in both spans, unless C is an OID element and nothing else:
\* then ParseAlgorithmSequence fails and ParseAlgorithmIdentifier succeeds.
C3_SequenceFormAgrees ==
    op = "ParseAlgorithmSequence" =>
        LET wrapped == ParseAlgorithmIdentifier(EncodeTLV(kSequence, input)) IN
        IF IsTagged(input, kOid)
        THEN ~result /\ wrapped.result
        ELSE /\ result = wrapped.result
             /\ result => /\ out.algorithm_oid = wrapped.algorithm_oid
                          /\ out.parameters = wrapped.parameters

\* ParseAlgorithmSequence was called with an OID element and nothing else.
C3_Witness ==
    /\ op = "ParseAlgorithmSequence"
    /\ IsTagged(input, kOid)
    /\ ~result

\* C4: IsNull returns true for the input 05 00 and for no other input.
C4_NullAccepted ==
    op = "IsNull" => (result <=> input = <<5, 0>>)

\* IsNull accepted an input.
C4_Witness ==
    /\ op = "IsNull"
    /\ result

\* C10: when ParseAlgorithmIdentifier succeeds, the OID span encoded as an
\* OID element, followed by the parameters span, wrapped into a SEQUENCE
\* element, is the input.
C10_RoundTrip ==
    (op = "ParseAlgorithmIdentifier" /\ result) =>
        EncodeTLV(kSequence,
                  EncodeTLV(kOid, out.algorithm_oid) \o out.parameters) = input

\* An AlgorithmIdentifier with a non-empty OID and parameters was parsed.
C10_Witness ==
    /\ op = "ParseAlgorithmIdentifier"
    /\ result
    /\ out.algorithm_oid # <<>>
    /\ out.parameters # <<>>

-----------------------------------------------------------------------------
(* The embedded SCT extractor's claims, under SpecSCT.                     *)

\* A serialized record decodes: version V1 and not cut short.
Decodes(record) == Len(record) = 2 /\ record[1] = 0

\* The entry a record leaves in the collection: its decoded form, or the
\* newly constructed entry when it does not decode.
EntryOf(record) ==
    IF Decodes(record) THEN [version |-> 0, log_id |-> record[2]]
    ELSE [version |-> 0, log_id |-> 0]

\* The last call was ExtractEmbeddedSCT on a certificate whose extension and
\* list container are well formed.
ListDecoded ==
    /\ op = "ExtractEmbeddedSCT"
    /\ input.cert.extension = "present"
    /\ input.cert.sct_list.wellFormed

Records == input.cert.sct_list.records

\* scts is what it was at the call followed by one entry per record, in
\* list order.
OneEntryPerRecord ==
    /\ Len(scts) = Len(input.scts) + Len(Records)
    /\ SubSeq(scts, 1, Len(input.scts)) = input.scts
    /\ \A i \in 1..Len(Records) : scts[Len(input.scts) + i] = EntryOf(Records[i])

\* C1: on a list of N >= 1 records ExtractEmbeddedSCT returns true exactly
\* when every record decodes, and whether or not it does, every record is
\* decoded and leaves one entry in the collection, in list order.
C1_AggregateFlag ==
    (ListDecoded /\ Len(Records) >= 1) =>
        /\ result <=> \A i \in 1..Len(Records) : Decodes(Records[i])
        /\ OneEntryPerRecord

\* A list whose first record does not decode and whose second does.
C1_Witness ==
    /\ ListDecoded
    /\ Len(Records) >= 2
    /\ ~Decodes(Records[1])
    /\ Decodes(Records[2])
    /\ ~result

AllDecode ==
    /\ ListDecoded
    /\ Len(Records) >= 1
    /\ \A i \in 1..Len(Records) : Decodes(Records[i])

\* C5 as stated: on N well-formed records ExtractEmbeddedSCT returns true
\* and the collection holds exactly N entries, whatever it held before.
C5_ExactlyN ==
    AllDecode => result /\ Len(scts) = Len(Records)

\* C5, amended: on N well-formed records ExtractEmbeddedSCT returns true and
\* appends exactly N decoded entries to what the collection held before.
C5_AppendsN ==
    AllDecode =>
        /\ result
        /\ scts = input.scts \o [i \in 1..Len(Records) |-> EntryOf(Records[i])]

\* N well-formed records were extracted into a collection that held entries.
C5_Witness ==
    /\ AllDecode
    /\ input.scts # <<>>
    /\ result

\* C6: without the extension, with a malformed extension or list container,
\* and with a list of zero records, ExtractEmbeddedSCT returns false and
\* leaves the collection as it was at the call.
C6_FailsUntouched ==
    (/\ op = "ExtractEmbeddedSCT"
     /\ \/ input.cert.extension # "present"
        \/ ~input.cert.sct_list.wellFormed
        \/ Records = <<>>)
    => ~result /\ scts = input.scts

\* A well-formed list of zero records met a collection that held entries.
C6_Witness ==
    /\ ListDecoded
    /\ Records = <<>>
    /\ input.scts # <<>>
    /\ ~result

-----------------------------------------------------------------------------
(* The resolver's claims, under SpecOID.                                   *)

\* The last call looked something up in the library.
TouchedLibrary ==
    \/ op = "OIDToNID" /\ ~input.out_null
    \/ op = "NIDToAbsoluteOID"

\* C7: the error queue is empty at the return of every call that did a
\* registry lookup, a NID-to-object lookup or an object-to-text conversion.
C7_ErrorQueueEmpty ==
    TouchedLibrary => err = <<>>

\* C8: with a non-null out, OIDToNID returns true and the registered
\* identifier for OID bytes the registry defines, false and -1 for all
\* others; it leaves the registry as it is; and it answers as the first call
\* with the same bytes did.
C8_PureQuery ==
    /\ registry = BuiltinObjects
    /\ (op = "OIDToNID" /\ ~input.out_null) =>
        /\ result <=> \E o \in BuiltinObjects : o.oid = input.oid
        /\ \A o \in BuiltinObjects : o.oid = input.oid => out.nid = o.nid
        /\ ~result => out.nid = -1
        /\ \A h \in seen : h.oid = input.oid =>
               h.result = result /\ h.nid = out.nid

\* An unknown OID was looked up a second time, the caller's integer holding
\* another value than at the first call.
C8_Witness ==
    /\ op = "OIDToNID"
    /\ ~input.out_null
    /\ ~result
    /\ input.out_before # -1
    /\ \E h \in seen : h.oid = input.oid
    /\ \E h \in seen : h.oid # input.oid /\ h.result

\* The dotted-decimal text of the registered OIDs.
DottedText(bytes) ==
    CASE bytes = <<42, 134, 72, 134, 247, 13, 1, 1, 1>> -> "1.2.840.113549.1.1.1"
      [] bytes = <<85, 4, 3>> -> "2.5.4.3"
      [] bytes = <<96, 134, 72, 1, 101, 3, 4, 2, 1>> -> "2.16.840.1.101.3.4.2.1"

\* C9: NIDToAbsoluteOID returns the dotted-decimal text of the OID, not its
\* registered name, when the bytes resolve and every later step succeeds,
\* and the empty string when a step fails: the OID is unknown, the
\* identifier has no object, or the conversion yields no characters.
C9_DottedOrEmpty ==
    op = "NIDToAbsoluteOID" =>
        IF /\ \E o \in BuiltinObjects : o.oid = input.oid
           /\ input.lib.nid2obj = "ok"
           /\ input.lib.obj2txt = "ok"
        THEN result = DottedText(input.oid)
        ELSE result = ""

\* The rsaEncryption OID was resolved to its dotted-decimal text.
C9_Witness ==
    /\ op = "NIDToAbsoluteOID"
    /\ input.oid = <<42, 134, 72, 134, 247, 13, 1, 1, 1>>
    /\ result = "1.2.840.113549.1.1.1"

-----------------------------------------------------------------------------
(* The key parsers' claims, under SpecDER.                                 *)

\* The ways s begins with an element of this tag: <<the element, the rest>>.
Heads(s, tag) == {sp \in Splits(s) : IsTagged(sp[1], tag)}

\* The content of the element e.
ValueOf(e) == CHOOSE v \in Suffixes(e) : e = EncodeTLV(e[1], v)

\* C11: ParseSubjectPublicKeyInfo returns true exactly when its input begins
\* with a SEQUENCE element whose content begins with a SEQUENCE element
\* followed at once by a BIT STRING element; it returns false when the inner
\* SEQUENCE is the only field or a field of another tag follows it; and bytes
\* after the bit string, inside or after the outer SEQUENCE, change neither
\* the result nor the two spans: they are those of the input without them.
C11_SubjectPublicKeyInfoAccepted ==
    op = "ParseSubjectPublicKeyInfo" =>
        /\ result <=> \E o \in Heads(input, kSequence) :
                      \E a \in Heads(ValueOf(o[1]), kSequence) :
                          Heads(a[2], kBitString) # {}
        /\ \A o \in Heads(input, kSequence) :
           \A a \in Heads(ValueOf(o[1]), kSequence) :
               /\ Heads(a[2], kBitString) = {} => ~result
               /\ \A b \in Heads(a[2], kBitString) :
                      LET bare == ParseSubjectPublicKeyInfo(
                                      EncodeTLV(kSequence, a[1] \o b[1]))
                      IN  /\ result
                          /\ bare.result
                          /\ out.algorithm_sequence = ValueOf(a[1])
                          /\ out.spk = ValueOf(b[1])
                          /\ out.algorithm_sequence = bare.first
                          /\ out.spk = bare.second

\* An input with bytes after the bit string, inside and after the outer
\* SEQUENCE, was accepted.
C11_Witness ==
    /\ op = "ParseSubjectPublicKeyInfo"
    /\ result
    /\ \E o \in Heads(input, kSequence) :
           /\ o[2] # <<>>
           /\ \E a \in Heads(ValueOf(o[1]), kSequence) :
              \E b \in Heads(a[2], kBitString) : b[2] # <<>>

\* C12: ParseRSAPublicKeyInfo returns true exactly when its input begins
\* with a SEQUENCE element whose content begins with two INTEGER elements in
\* a row; when the modulus is the only field or a field of another tag
\* follows it, it returns false with the modulus read and the exponent not;
\* and bytes after the exponent, inside or after the SEQUENCE, change neither
\* the result nor the two spans: they are those of the input without them.
C12_RSAPublicKeyAccepted ==
    op = "ParseRSAPublicKeyInfo" =>
        /\ result <=> \E o \in Heads(input, kSequence) :
                      \E a \in Heads(ValueOf(o[1]), kInteger) :
                          Heads(a[2], kInteger) # {}
        /\ \A o \in Heads(input, kSequence) :
           \A a \in Heads(ValueOf(o[1]), kInteger) :
               /\ Heads(a[2], kInteger) = {} =>
                      /\ ~result
                      /\ out.modulus = ValueOf(a[1])
                      /\ out.public_exponent = Unset
               /\ \A b \in Heads(a[2], kInteger) :
                      LET bare == ParseRSAPublicKeyInfo(
                                      EncodeTLV(kSequence, a[1] \o b[1]))
                      IN  /\ result
                          /\ bare.result
                          /\ out.modulus = ValueOf(a[1])
                          /\ out.public_exponent = ValueOf(b[1])
                          /\ out.modulus = bare.first
                          /\ out.public_exponent = bare.second

\* A key with a non-empty modulus was accepted with bytes after the SEQUENCE.
C12_Witness ==
    /\ op = "ParseRSAPublicKeyInfo"
    /\ result
    /\ out.modulus # <<>>
    /\ \E o \in Heads(input, kSequence) : o[2] # <<>>

=============================================================================
